---- MODULE Spec2Model ----
(***************************************************************************)
(* A model of rbxl-to-obj (src/src/main.rs): the walk over the instance    *)
(* tree (main, export_instance), the material table, the two output files  *)
(* and the primitive mesh builders (cube_mesh, wedge_mesh,                 *)
(* corner_wedge_mesh, cylinder_mesh, sphere_mesh).                         *)
(*                                                                         *)
(* Numbers.  Sizes and positions are fixed-point numbers with one binary   *)
(* digit: the real q is the integer 2q.  Every size and position of the    *)
(* model is a multiple of 1/2 with a small magnitude, so each f32          *)
(* operation of cube_mesh, wedge_mesh and apply_cframe on them is exact.   *)
(* Vertices whose coordinates need sqrt, sin or cos (the sphere's, and the *)
(* cylinder's ring) are kept symbolic: a record that names how the vertex  *)
(* was computed.  Vertex indices are the code's 0-based usize indices;     *)
(* vertices[i + 1] is the code's vertices[i].                              *)
(***************************************************************************)
EXTENDS Integers, Sequences, FiniteSets, TLC

\* ------------------------------------------------------------------ bounds

\* The largest instance tree of the model (instances below the root).
MaxNodes == 3

\* The largest subdivision count sphere_mesh is stepped through.
MaxSubdivisions == 2

\* ------------------------------------------------- constants of the program

\* sphere_mesh(size, 2, 0)
Subdivisions == 2

\* cylinder_mesh(size, 24)
CylinderSteps == 24

\* ----------------------------------------------------------------- helpers

Range(s) == {s[i] : i \in 1..Len(s)}

Max(S) == CHOOSE x \in S : \A y \in S : y <= x

\* Vector3::new(x, y, z), fixed-point coordinates.
Vec(x, y, z) == [x |-> x, y |-> y, z |-> z]

\* A vertex whose coordinates are irrational: `how` names its computation,
\* `size` the per-axis scale applied to it.
Sym(how, size) == [sym |-> how, size |-> size]

IsExact(v) == "x" \in DOMAIN v

\* ------------------------------------------------------------ rigid motion

\* Matrix3::identity()
Identity == [x |-> Vec(1, 0, 0), y |-> Vec(0, 1, 0), z |-> Vec(0, 0, 1)]

\* A rotation by 90 degrees about the z axis.
RotZ90 == [x |-> Vec(0, -1, 0), y |-> Vec(1, 0, 0), z |-> Vec(0, 0, 1)]

apply_matrix3(m, v) ==
    Vec(m.x.x * v.x + m.x.y * v.y + m.x.z * v.z,
        m.y.x * v.x + m.y.y * v.y + m.y.z * v.z,
        m.z.x * v.x + m.z.y * v.y + m.z.z * v.z)

apply_cframe(v, cf) ==
    IF IsExact(v)
    THEN LET r == apply_matrix3(cf.orientation, v)
         IN  Vec(r.x + cf.position.x, r.y + cf.position.y, r.z + cf.position.z)
    ELSE [sym |-> v.sym, size |-> v.size, cf |-> cf]

\* ---------------------------------------------------------- mesh builders

Mesh(vs, fs) == [vertices |-> vs, faces |-> fs]

\* size.x / 2.0 and so on, on a fixed-point q whose half is a multiple of 1/2.
HalfExtent(q) == q \div 2

CubeFaces ==
    << <<0, 1, 2>>, <<0, 2, 3>>, <<4, 5, 6>>, <<4, 6, 7>>,
       <<0, 1, 5>>, <<0, 5, 4>>, <<1, 2, 6>>, <<1, 6, 5>>,
       <<2, 3, 7>>, <<2, 7, 6>>, <<3, 0, 4>>, <<3, 4, 7>> >>

cube_mesh(size) ==
    LET sx == HalfExtent(size.x)
        sy == HalfExtent(size.y)
        sz == HalfExtent(size.z)
    IN  Mesh(<< Vec(-sx, -sy, -sz), Vec(sx, -sy, -sz),
                Vec(sx, sy, -sz),   Vec(-sx, sy, -sz),
                Vec(-sx, -sy, sz),  Vec(sx, -sy, sz),
                Vec(sx, sy, sz),    Vec(-sx, sy, sz) >>,
             CubeFaces)

WedgeFaces ==
    << <<0, 1, 2>>, <<0, 2, 3>>, <<0, 1, 4>>, <<1, 5, 4>>,
       <<3, 2, 5>>, <<3, 5, 4>>, <<0, 3, 4>>, <<1, 2, 5>> >>

wedge_mesh(size) ==
    LET sx == HalfExtent(size.x)
        sy == HalfExtent(size.y)
        sz == HalfExtent(size.z)
    IN  Mesh(<< Vec(-sx, -sy, -sz), Vec(sx, -sy, -sz),
                Vec(sx, -sy, sz),   Vec(-sx, -sy, sz),
                Vec(-sx, sy, sz),   Vec(sx, sy, sz) >>,
             WedgeFaces)

corner_wedge_mesh(size) == wedge_mesh(size)

\* The ring: for i in 0..steps, two vertices at angle 2*PI*i/steps.
CylinderRing(size, steps) ==
    [k \in 1..(2 * steps) |->
        LET i == (k - 1) \div 2
        IN  IF k % 2 = 1 THEN Sym(<<"ring", i, steps, -1>>, size)
                         ELSE Sym(<<"ring", i, steps, 1>>, size)]

\* cylinder_mesh with the two cap centres taken one index too far.
CylinderStepFaces_CapOffByOne(i, steps, len) ==
    LET next == (i + 1) % steps
    IN  << <<i * 2, next * 2, next * 2 + 1>>,
           <<i * 2, next * 2 + 1, i * 2 + 1>>,
           <<i * 2, next * 2, len - 1>>,
           <<i * 2 + 1, next * 2 + 1, len>> >>

\* The four faces pushed by iteration i of the second loop; len is
\* vertices.len().
CylinderStepFaces(i, steps, len) ==
    LET next == (i + 1) % steps
    IN  << <<i * 2, next * 2, next * 2 + 1>>,
           <<i * 2, next * 2 + 1, i * 2 + 1>>,
           <<i * 2, next * 2, len - 2>>,
           <<i * 2 + 1, next * 2 + 1, len - 1>> >>

cylinder_mesh(size, steps) ==
    LET x_half   == HalfExtent(size.x)
        vertices == CylinderRing(size, steps)
                        \o << Vec(-x_half, 0, 0), Vec(x_half, 0, 0) >>
        len      == Len(vertices)
        faces    == [k \in 1..(4 * steps) |->
                        CylinderStepFaces((k - 1) \div 4, steps, len)[((k - 1) % 4) + 1]]
    IN  Mesh(vertices, faces)

\* ------------------------------------------------------------ sphere_mesh

\* The 12 icosahedron vertices after normalisation to unit length.
IcoVertices == [i \in 1..12 |-> <<"ico", i - 1, i - 1>>]

IcoFaces ==
    << <<0, 11, 5>>, <<0, 5, 1>>,  <<0, 1, 7>>,   <<0, 7, 10>>, <<0, 10, 11>>,
       <<1, 5, 9>>,  <<5, 11, 4>>, <<11, 10, 2>>, <<10, 7, 6>>, <<7, 1, 8>>,
       <<3, 9, 4>>,  <<3, 4, 2>>,  <<3, 2, 6>>,   <<3, 6, 8>>,  <<3, 8, 9>>,
       <<4, 9, 5>>,  <<2, 4, 11>>, <<6, 2, 10>>,  <<8, 6, 7>>,  <<9, 8, 1>> >>

\* HashMap::<(usize, usize), usize>::new()
EmptyCache == [k \in {} |-> 0]

\* get_midpoint with the key taken as given, not ordered.
MidKey_AsGiven(a, b) == <<a, b>>

\* The cache key of the closure get_midpoint.
MidKey(a, b) == IF a < b THEN <<a, b>> ELSE <<b, a>>

\* The normalised midpoint of vertices a and b: (va + vb) / 2 is the same
\* f32 value for (a, b) and for (b, a), so the value names the unordered pair.
MidVertex(a, b) == IF a < b THEN <<"mid", a, b>> ELSE <<"mid", b, a>>

\* get_midpoint without cache.insert: every request pushes a vertex.
get_midpoint_Uncached(a, b, vertices, cache) ==
    [idx      |-> Len(vertices),
     vertices |-> Append(vertices, MidVertex(a, b)),
     cache    |-> cache]

\* The closure get_midpoint: the index returned, and the vertices and the
\* cache it leaves.
get_midpoint(a, b, vertices, cache) ==
    LET key == MidKey(a, b)
    IN  IF key \in DOMAIN cache
        THEN [idx |-> cache[key], vertices |-> vertices, cache |-> cache]
        ELSE LET idx == Len(vertices)
             IN  [idx      |-> idx,
                  vertices |-> Append(vertices, MidVertex(a, b)),
                  cache    |-> (key :> idx) @@ cache]

\* One iteration of `for &(a, b, c) in faces.iter()`.
SubdivideFace(st, f) ==
    LET a  == f[1]
        b  == f[2]
        c  == f[3]
        m1 == get_midpoint(a, b, st.vertices, st.cache)
        m2 == get_midpoint(b, c, m1.vertices, m1.cache)
        m3 == get_midpoint(c, a, m2.vertices, m2.cache)
        ab == m1.idx
        bc == m2.idx
        ca == m3.idx
    IN  [vertices  |-> m3.vertices,
         cache     |-> m3.cache,
         new_faces |-> st.new_faces \o
                          << <<a, ab, ca>>, <<b, bc, ab>>, <<c, ca, bc>>, <<ab, bc, ca>> >>,
         ab |-> ab, bc |-> bc, ca |-> ca]

\* The state at the top of one pass of `for _ in 0..subdivisions`.
PassStart(vertices) ==
    [vertices |-> vertices, cache |-> EmptyCache, new_faces |-> << >>,
     ab |-> 0, bc |-> 0, ca |-> 0]

\* The loop `for &(a, b, c) in faces.iter()`, from the state st of a pass
\* under way: each iteration pushes four faces, so Len(st.new_faces) \div 4
\* iterations are behind it.
RECURSIVE SubdivideFrom(_, _)
SubdivideFrom(st, faces) ==
    LET done == Len(st.new_faces) \div 4
    IN  IF done >= Len(faces) THEN st
        ELSE SubdivideFrom(SubdivideFace(st, faces[done + 1]), faces)

RECURSIVE SubdivideTimes(_, _, _)
SubdivideTimes(vertices, faces, n) ==
    IF n = 0 THEN [vertices |-> vertices, faces |-> faces]
    ELSE LET st == SubdivideFrom(PassStart(vertices), faces)
         IN  SubdivideTimes(st.vertices, st.new_faces, n - 1)

\* The last loop: each unit vertex scaled per axis by the radii.
ScaleAll(vertices, size) == [i \in 1..Len(vertices) |-> Sym(vertices[i], size)]

\* The unit sphere after n passes, for each n the exporter can ask for; the
\* passes do not depend on the size.
UnitSphere == [n \in 0..Subdivisions |-> SubdivideTimes(IcoVertices, IcoFaces, n)]

sphere_mesh(size, subdivisions) ==
    LET r == UnitSphere[subdivisions]
    IN  Mesh(ScaleAll(r.vertices, size), r.faces)

\* The undirected edges of a triangle list.
UEdge(a, b) == IF a < b THEN <<a, b>> ELSE <<b, a>>

FaceEdges(f) == {UEdge(f[1], f[2]), UEdge(f[2], f[3]), UEdge(f[3], f[1])}

Edges(faces) == UNION {FaceEdges(faces[i]) : i \in 1..Len(faces)}

\* ----------------------------------------------------- instances (WeakDom)

\* A property of an instance is a Variant; NoProp is a key the properties
\* map does not hold (properties.get returns None).
NoProp == [type |-> "None"]

\* A property of a type the code does not match on.
StringProp == [type |-> "String", s |-> "x"]

Vector3Prop(x, y, z) == [type |-> "Vector3", v |-> Vec(x, y, z)]

CFrameProp(pos, orient) ==
    [type |-> "CFrame", v |-> [position |-> pos, orientation |-> orient]]

Color3uint8Prop(r, g, b) == [type |-> "Color3uint8", r |-> r, g |-> g, b |-> b]

\* The f32 num / den; den is a power of two, so the value is exact.
Float32Prop(num, den) == [type |-> "Float32", num |-> num, den |-> den]

EnumProp(n) == [type |-> "Enum", v |-> n]

Instance(class, size, cframe, color, transparency, shape) ==
    [class |-> class, Size |-> size, CFrame |-> cframe, Color |-> color,
     Transparency |-> transparency, Shape |-> shape]

\* The instances a tree of the model is built from: an unrecognized class
\* and the five shapes, with properties present, absent and wrongly typed,
\* and with equal and different material keys.
InstancePool ==
    { Instance("Folder", NoProp, NoProp, Color3uint8Prop(255, 0, 0), NoProp, NoProp),
      Instance("Part", Vector3Prop(2, 4, 6), CFrameProp(Vec(0, 2, 0), Identity),
               NoProp, StringProp, NoProp),
      Instance("Part", Vector3Prop(4, 4, 4), NoProp,
               Color3uint8Prop(255, 255, 255), Float32Prop(0, 4), EnumProp(0)),
      Instance("Part", Vector3Prop(4, 2, 2), CFrameProp(Vec(2, 0, -6), RotZ90),
               Color3uint8Prop(255, 0, 0), Float32Prop(2, 4), EnumProp(2)),
      Instance("WedgePart", StringProp, NoProp,
               Color3uint8Prop(255, 0, 0), NoProp, NoProp),
      Instance("CornerWedgePart", Vector3Prop(2, 2, 2), NoProp,
               NoProp, Float32Prop(3, 4), NoProp) }

\* The class arm "Part" | "WedgePart" | "CornerWedgePart".
Recognized(inst) == inst.class \in {"Part", "WedgePart", "CornerWedgePart"}

SizeOf(inst) ==
    IF inst.Size.type = "Vector3" THEN inst.Size.v ELSE Vec(2, 2, 2)

CFrameOf(inst) ==
    IF inst.CFrame.type = "CFrame" THEN inst.CFrame.v
    ELSE [position |-> Vec(0, 0, 0), orientation |-> Identity]

ColorOf(inst) ==
    IF inst.Color.type = "Color3uint8"
    THEN <<inst.Color.r, inst.Color.g, inst.Color.b>>
    ELSE <<255, 255, 255>>

TransparencyOf(inst) ==
    IF inst.Transparency.type = "Float32"
    THEN [num |-> inst.Transparency.num, den |-> inst.Transparency.den]
    ELSE [num |-> 0, den |-> 1]

ShapeOf(inst) ==
    IF inst.Shape.type = "Enum" THEN inst.Shape.v ELSE 1

\* `x as u8` for the f32 x = num / den (den > 0): truncation toward zero,
\* saturating at 0 and 255.
AsU8(num, den) ==
    IF num <= 0 THEN 0
    ELSE IF num \div den > 255 THEN 255
    ELSE num \div den

\* ((1.0 - transparency) * 255.0) as u8
AlphaOf(t) == AsU8((t.den - t.num) * 255, t.den)

\* mat_key
MatKey(inst) ==
    LET c == ColorOf(inst)
    IN  <<c[1], c[2], c[3], AlphaOf(TransparencyOf(inst))>>

\* format!("mat_{}", id)
MatName(id) == "mat_" \o ToString(id)

\* The inner match: the local mesh of a recognized instance.
LocalMesh(inst) ==
    LET size == SizeOf(inst)
    IN  CASE inst.class = "Part" ->
                (CASE ShapeOf(inst) = 0 -> sphere_mesh(size, Subdivisions)
                   [] ShapeOf(inst) = 1 -> cube_mesh(size)
                   [] ShapeOf(inst) = 2 -> cylinder_mesh(size, CylinderSteps)
                   [] OTHER             -> cube_mesh(size))
          [] inst.class = "WedgePart"       -> wedge_mesh(size)
          [] inst.class = "CornerWedgePart" -> corner_wedge_mesh(size)
          [] OTHER                          -> cube_mesh(size)

\* --------------------------------------------------------- the two writers

\* One writeln!: the file, the line, and the instance whose call wrote it
\* (0: main).  `by` is bookkeeping of the model, not content of the file.
ObjLine(kind, by) == [file |-> "obj", kind |-> kind, by |-> by]

HeaderLines ==
    << ObjLine("#", 0), ObjLine("mtllib", 0) >>

\* The four lines or_insert_with writes for a new material.
MtlBlock(name, key, by) ==
    << [file |-> "mtl", kind |-> "newmtl", name |-> name, by |-> by],
       [file |-> "mtl", kind |-> "Kd", r |-> <<key[1], 255>>, g |-> <<key[2], 255>>,
        b |-> <<key[3], 255>>, by |-> by],
       [file |-> "mtl", kind |-> "d", a |-> <<key[4], 255>>, by |-> by],
       [file |-> "mtl", kind |-> "", by |-> by] >>

UsemtlLine(name, by) ==
    [file |-> "obj", kind |-> "usemtl", name |-> name, by |-> by]

VertexLines(vertices, cframe, by) ==
    [n \in 1..Len(vertices) |->
        [file |-> "obj", kind |-> "v", pos |-> apply_cframe(vertices[n], cframe),
         by |-> by]]

\* "f {} {} {}", f.0 + *vertex_offset + 1, ...
FaceLine(f, vertex_offset, by) ==
    [file |-> "obj", kind |-> "f", i |-> f[1] + vertex_offset + 1,
     j |-> f[2] + vertex_offset + 1, k |-> f[3] + vertex_offset + 1, by |-> by]

FaceLines(faces, vertex_offset, by) ==
    [n \in 1..Len(faces) |-> FaceLine(faces[n], vertex_offset, by)]

\* The offset advanced by the face count instead of the vertex count.
AdvanceOffset_ByFaces(vertex_offset, mesh) == vertex_offset + Len(mesh.faces)

\* *vertex_offset += local_vertices.len()
AdvanceOffset(vertex_offset, mesh) == vertex_offset + Len(mesh.vertices)

\* An insert on every visit instead of entry().or_insert_with().
IsVacant_Always(key, map) == TRUE

\* material_map.entry(mat_key): the entry is vacant, or_insert_with runs.
IsVacant(key, map) == key \notin DOMAIN map

\* The counter never incremented.
NextMatId_Stuck(id) == id

\* *next_mat_id += 1
NextMatId(id) == id + 1

\* usemtl written only together with a new material's definition.
UsemtlLines_OnlyWhenNew(name, fresh, by) ==
    IF fresh THEN << UsemtlLine(name, by) >> ELSE << >>

\* writeln!(obj, "usemtl {}", mat_name): written for every recognized
\* instance, whether its material is new or not.
UsemtlLines(name, fresh, by) == << UsemtlLine(name, by) >>

\* The body of export_instance before its loop over the children, on the
\* state st = [writes, vertex_offset, material_map, next_mat_id]; ref is
\* inst_ref.
ExportBody(ref, inst, st) ==
    IF ~Recognized(inst) THEN st
    ELSE LET key    == MatKey(inst)
             fresh  == IsVacant(key, st.material_map)
             name   == IF fresh THEN MatName(st.next_mat_id)
                                ELSE st.material_map[key]
             mesh   == LocalMesh(inst)
         IN  [writes |->
                 st.writes
                 \o (IF fresh THEN MtlBlock(name, key, ref) ELSE << >>)
                 \o UsemtlLines(name, fresh, ref)
                 \o VertexLines(mesh.vertices, CFrameOf(inst), ref)
                 \o FaceLines(mesh.faces, st.vertex_offset, ref),
              vertex_offset |-> AdvanceOffset(st.vertex_offset, mesh),
              material_map  |-> IF fresh THEN (key :> name) @@ st.material_map
                                         ELSE st.material_map,
              next_mat_id   |-> IF fresh THEN NextMatId(st.next_mat_id)
                                         ELSE st.next_mat_id]

\* -------------------------------------------------------------- the state

VARIABLES
    dom,            \* the WeakDom: the children lists and the instances
    stack,          \* the call stack: main's loop, then export_instance frames
    pc,             \* "walk" while main runs its loop, "done" once it returned
    visited,        \* the inst_ref of each export_instance call, in call order
    writes,         \* the writeln! calls on obj and mtl so far, in order
    vertex_offset,
    material_map,
    next_mat_id,
    sph             \* one call of sphere_mesh, stepped through its loops

vars == <<dom, stack, pc, visited, writes, vertex_offset, material_map,
          next_mat_id, sph>>

exportVars == <<dom, stack, pc, visited, writes, vertex_offset, material_map,
                next_mat_id>>

\* dom.root()
Root == 0

\* The children list of p under the parent map: ascending referents.
ChildrenOf(parent, n, p) ==
    LET IsChild(i) == parent[i] = p
    IN  SelectSeq([i \in 1..n |-> i], IsChild)

\* Every ordered forest of n instances, its instances numbered level by
\* level (so that a parent map is a non-decreasing one).
Forests(n) ==
    {parent \in [1..n -> 0..(n - 1)] :
        /\ \A i \in 1..n : parent[i] < i
        /\ \A i \in 1..(n - 1) : parent[i] <= parent[i + 1]}

\* No instance read yet.
NoInst == [r \in {} |-> NoProp]

\* The tree.  inst holds the instances the walk has read so far: the program
\* looks at an instance only in export_instance (dom.get_by_ref), and the
\* model draws it from InstancePool there.
MakeDom(n, parent) ==
    [n        |-> n,
     children |-> [p \in 0..n |-> ChildrenOf(parent, n, p)],
     inst     |-> NoInst]

Doms ==
    UNION {{MakeDom(n, parent) : parent \in Forests(n)} : n \in 1..MaxNodes}

\* A frame: the instance whose children list is being iterated, and the
\* position of the iterator in it.
Frame(ref) == [inst |-> ref, next |-> 1]

EmptyMap == [k \in {} |-> ""]

ExportInit ==
    /\ stack = << Frame(Root) >>
    /\ pc = "walk"
    /\ visited = << >>
    /\ writes = HeaderLines
    /\ vertex_offset = 0
    /\ material_map = EmptyMap
    /\ next_mat_id = 0

SphIdle == [pc |-> "idle"]

Init ==
    /\ dom \in Doms
    /\ ExportInit
    /\ sph = SphIdle

\* The frame's loop over the children has a next element.
HasNextChild(frame) == frame.next <= Len(dom.children[frame.inst])

\* The returns (Ok(())) of the export_instance frames whose loop is over:
\* the stack once control is back in a loop that goes on, or in main's.
RECURSIVE Unwind(_)
Unwind(stk) ==
    IF Len(stk) > 1 /\ ~HasNextChild(stk[Len(stk)])
    THEN Unwind(SubSeq(stk, 1, Len(stk) - 1))
    ELSE stk

\* The call stack after calling export_instance on the next child: the
\* caller's iterator has advanced, the callee starts at its first child.
PushChild(stk, child) ==
    [stk EXCEPT ![Len(stk)].next = @ + 1] \o << Frame(child) >>

\* The children taken last to first.
ChildOrder_Reversed(frame) ==
    LET kids == dom.children[frame.inst]
    IN  [k \in 1..Len(kids) |-> kids[Len(kids) + 1 - k]]

\* The children of a frame's instance in the order its loop takes them.
ChildOrder(frame) == dom.children[frame.inst]

\* The next call of export_instance, from main's loop or from the loop of an
\* export_instance frame (after the returns of the frames that are over):
\* the body up to its own loop.
ExportInstance ==
    /\ pc = "walk"
    /\ LET stk == Unwind(stack)
           top == stk[Len(stk)]
       IN  /\ HasNextChild(top)
           /\ \E inst \in InstancePool :
                LET c  == ChildOrder(top)[top.next]
                    st == ExportBody(c, inst,
                            [writes |-> writes, vertex_offset |-> vertex_offset,
                             material_map |-> material_map,
                             next_mat_id |-> next_mat_id])
                IN  /\ dom' = [dom EXCEPT !.inst = (c :> inst) @@ @]
                    /\ stack' = PushChild(stk, c)
                    /\ visited' = Append(visited, c)
                    /\ writes' = st.writes
                    /\ vertex_offset' = st.vertex_offset
                    /\ material_map' = st.material_map
                    /\ next_mat_id' = st.next_mat_id
    /\ UNCHANGED <<pc, sph>>

\* Every loop is over: the last frames return, then main returns Ok(()).
MainReturn ==
    /\ pc = "walk"
    /\ LET stk == Unwind(stack)
       IN  /\ Len(stk) = 1
           /\ ~HasNextChild(stk[1])
    /\ pc' = "done"
    /\ stack' = << >>
    /\ UNCHANGED <<dom, visited, writes, vertex_offset, material_map,
                   next_mat_id, sph>>

Next == ExportInstance \/ MainReturn

Spec == Init /\ [][Next]_vars

\* main and export_instance are straight-line code on one thread: a step
\* that can be taken is taken.
FairSpec == Spec /\ WF_vars(Next)

\* ------------------------------------------- sphere_mesh, loop by loop

SphereSizes == {Vec(2, 2, 2), Vec(4, 2, 6)}

LevelStats(vertices, faces) ==
    [nv |-> Len(vertices), nf |-> Len(faces), ne |-> Cardinality(Edges(faces))]

\* The state of sphere_mesh(size, subdivisions, _) when it reaches its
\* subdivision loop.
SphereEntry(size, subdivisions) ==
    [pc           |-> "loop",
     size         |-> size,
     subdivisions |-> subdivisions,
     pass         |-> 0,
     vertices     |-> IcoVertices,
     faces        |-> IcoFaces,
     new_faces    |-> << >>,
     mid_cache    |-> EmptyCache,
     i            |-> 1,
     requests     |-> << >>,
     levels       |-> << LevelStats(IcoVertices, IcoFaces) >>,
     result       |-> Mesh(<< >>, << >>)]

ExportIdle ==
    /\ dom = MakeDom(0, << >>)
    /\ stack = << >>
    /\ pc = "idle"
    /\ visited = << >>
    /\ writes = << >>
    /\ vertex_offset = 0
    /\ material_map = EmptyMap
    /\ next_mat_id = 0

SphereInit ==
    /\ ExportIdle
    /\ \E size \in SphereSizes, subdivisions \in 0..MaxSubdivisions :
          sph = SphereEntry(size, subdivisions)

\* One iteration of the loop over the faces: three get_midpoint calls and
\* four pushes.  requests logs the three calls: <<a, b, index returned>>.
SubdivideStep ==
    /\ sph.pc = "loop"
    /\ sph.pass < sph.subdivisions
    /\ sph.i <= Len(sph.faces)
    /\ LET f  == sph.faces[sph.i]
           st == SubdivideFace([vertices |-> sph.vertices, cache |-> sph.mid_cache,
                                new_faces |-> sph.new_faces], f)
       IN  sph' = [sph EXCEPT
                     !.vertices  = st.vertices,
                     !.mid_cache = st.cache,
                     !.new_faces = st.new_faces,
                     !.i         = @ + 1,
                     !.requests  = @ \o << <<f[1], f[2], st.ab>>,
                                           <<f[2], f[3], st.bc>>,
                                           <<f[3], f[1], st.ca>> >>]
    /\ UNCHANGED exportVars

\* The end of one pass (faces = new_faces) and the top of the next
\* (a new new_faces and a new mid_cache).
EndPass ==
    /\ sph.pc = "loop"
    /\ sph.pass < sph.subdivisions
    /\ sph.i > Len(sph.faces)
    /\ sph' = [sph EXCEPT
                 !.faces     = sph.new_faces,
                 !.new_faces = << >>,
                 !.mid_cache = EmptyCache,
                 !.i         = 1,
                 !.pass      = @ + 1,
                 !.levels    = Append(@, LevelStats(sph.vertices, sph.new_faces))]
    /\ UNCHANGED exportVars

\* The loop is over: the vertices are scaled and the mesh returned.
SphereReturn ==
    /\ sph.pc = "loop"
    /\ sph.pass = sph.subdivisions
    /\ sph' = [sph EXCEPT
                 !.pc     = "done",
                 !.result = Mesh(ScaleAll(sph.vertices, sph.size), sph.faces)]
    /\ UNCHANGED exportVars

SphereNext == SubdivideStep \/ EndPass \/ SphereReturn

SphereSpec == SphereInit /\ [][SphereNext]_vars

\* ======================================================== the properties

\* ------------------------------------------------------- views of a state

Positions(kind) == {p \in 1..Len(writes) : writes[p].kind = kind}

\* The obj file: the lines written to it, in order.
Obj ==
    LET IsObj(l) == l.file = "obj"
    IN  SelectSeq(writes, IsObj)

\* The mtl file.
Mtl ==
    LET IsMtl(l) == l.file = "mtl"
    IN  SelectSeq(writes, IsMtl)

\* The instances visited so far that are of a recognized class.
Shapes == {c \in Range(visited) : Recognized(dom.inst[c])}

\* The material name on the usemtl line an instance wrote.
NameUsed(c) ==
    LET p == CHOOSE q \in Positions("usemtl") : writes[q].by = c
    IN  writes[p].name

\* The pre-order of the subtrees of the children kids[k..] of one instance.
RECURSIVE PreOrderFrom(_, _)
PreOrderFrom(kids, k) ==
    IF k > Len(kids) THEN << >>
    ELSE << kids[k] >> \o PreOrderFrom(dom.children[kids[k]], 1)
                       \o PreOrderFrom(kids, k + 1)

\* The depth-first pre-order of the forest below the root.
PreOrder == PreOrderFrom(dom.children[Root], 1)

IsPrefix(s, t) == Len(s) <= Len(t) /\ SubSeq(t, 1, Len(s)) = s

\* The keys of the recognized instances of a visiting sequence, each once,
\* in first-seen order, with the instance that brought it.
RECURSIVE FirstSeen(_, _)
FirstSeen(seq, k) ==
    IF k = 0 THEN << >>
    ELSE LET before == FirstSeen(seq, k - 1)
             c      == seq[k]
         IN  IF Recognized(dom.inst[c])
                /\ \A m \in 1..Len(before) : before[m].key # MatKey(dom.inst[c])
             THEN Append(before, [key |-> MatKey(dom.inst[c]), by |-> c])
             ELSE before

\* The names in the order the program is to hand them out.
MatNames == << "mat_0", "mat_1", "mat_2", "mat_3", "mat_4", "mat_5" >>

\* --------------------------------------------------------------- C1

\* C1: at every point of the export, every index on a face line is the
\* 1-based number of a vertex line written before that face line: it is at
\* least 1, at most the number of vertex lines, and the vertex line of that
\* number stands earlier in the file.
C1_FaceIndicesWritten ==
    LET obj  == Obj
        IsV(p) == obj[p].kind = "v"
        vpos == SelectSeq([p \in 1..Len(obj) |-> p], IsV)
    IN  \A p \in 1..Len(obj) :
            obj[p].kind = "f" =>
                \A x \in {obj[p].i, obj[p].j, obj[p].k} :
                    /\ 1 <= x
                    /\ x <= Len(vpos)
                    /\ vpos[x] < p

\* A finished export of a sphere, a cylinder and an unrecognized instance,
\* with faces shifted by a non-zero offset.
C1_Witness ==
    /\ pc = "done"
    /\ \E a, b, c \in Range(visited) :
          /\ dom.inst[a].class = "Part" /\ ShapeOf(dom.inst[a]) = 0
          /\ dom.inst[b].class = "Part" /\ ShapeOf(dom.inst[b]) = 2
          /\ ~Recognized(dom.inst[c])
    /\ \E p \in Positions("f") : writes[p].i > 162

\* --------------------------------------------------------------- C2

\* C2: any two recognized instances visited so far use the same material
\* name exactly when their (R,G,B,A) keys are equal.
C2_NameIffKey ==
    LET IsUse(l) == l.kind = "usemtl"
        uses == Range(SelectSeq(writes, IsUse))
    IN  /\ {u.by : u \in uses} = Shapes
        /\ \A u1, u2 \in uses :
              (u1.name = u2.name)
                  <=> (MatKey(dom.inst[u1.by]) = MatKey(dom.inst[u2.by]))

\* Two instances with different properties and one key, apart in the tree,
\* and a third with another key between them.
C2_Witness ==
    /\ pc = "done"
    /\ Len(visited) = 3
    /\ Shapes = Range(visited)
    /\ dom.inst[visited[1]] # dom.inst[visited[3]]
    /\ MatKey(dom.inst[visited[1]]) = MatKey(dom.inst[visited[3]])
    /\ MatKey(dom.inst[visited[1]]) # MatKey(dom.inst[visited[2]])
    /\ NameUsed(visited[1]) = NameUsed(visited[3])

\* --------------------------------------------------------------- C3

\* C3: the material table holds exactly the distinct keys seen so far, the
\* k-th of them in first-seen order is named mat_k, next_mat_id is their
\* number, and the material file is the blocks of those keys, one each, in
\* first-seen order, each written by the instance that brought the key.
C3_MaterialTable ==
    LET seen == FirstSeen(visited, Len(visited))
        RECURSIVE Blocks(_)
        Blocks(k) ==
            IF k = 0 THEN << >>
            ELSE Blocks(k - 1) \o MtlBlock(MatNames[k], seen[k].key, seen[k].by)
    IN  /\ DOMAIN material_map = {seen[k].key : k \in 1..Len(seen)}
        /\ \A k \in 1..Len(seen) : material_map[seen[k].key] = MatNames[k]
        /\ next_mat_id = Len(seen)
        /\ Mtl = Blocks(Len(seen))

\* Three instances, two keys: the second key is named mat_1 and the third
\* instance finds its key in the table.
C3_Witness ==
    /\ pc = "done"
    /\ Len(visited) = 3
    /\ Shapes = Range(visited)
    /\ next_mat_id = 2
    /\ MatKey(dom.inst[visited[3]]) = MatKey(dom.inst[visited[1]])
    /\ material_map[MatKey(dom.inst[visited[2]])] = "mat_1"

\* --------------------------------------------------------------- C4

\* What C4 says of a state: the calls so far are a prefix of the pre-order,
\* and all of it once main has returned; every line but the header was
\* written by a recognized instance; the instances that wrote geometry are
\* the recognized ones among those visited, in visiting order, each with
\* vertex and face lines.
C4_State ==
    LET IsShape(c) == Recognized(dom.inst[c])
        shapes == SelectSeq(visited, IsShape)
        IsUse(l) == l.kind = "usemtl"
        uses == SelectSeq(writes, IsUse)
        vby == {writes[p].by : p \in Positions("v")}
        fby == {writes[p].by : p \in Positions("f")}
    IN  /\ IsPrefix(visited, PreOrder)
        /\ pc = "done" => visited = PreOrder
        /\ {writes[p].by : p \in 1..Len(writes)} \subseteq Range(shapes) \cup {0}
        /\ Len(uses) = Len(shapes)
        /\ \A k \in 1..Len(uses) : uses[k].by = shapes[k]
        /\ vby = Range(shapes)
        /\ fby = Range(shapes)

\* What C4 says of a step: the call of an unrecognized instance writes
\* nothing and leaves the vertex offset and the material table alone.
C4_Step ==
    (/\ visited' # visited
     /\ ~Recognized(dom'.inst[visited'[Len(visited')]]))
    => UNCHANGED <<writes, vertex_offset, material_map, next_mat_id>>

\* C4: the walk visits every instance once, in depth-first pre-order,
\* unrecognized instances emit nothing while their descendants are visited,
\* geometry comes from exactly the recognized instances in that order, and
\* the walk ends.
C4_PreOrderWalk ==
    /\ []C4_State
    /\ [][C4_Step]_vars
    /\ <>(pc = "done")

\* A finished walk of three instances where pre-order is not level order:
\* the first root child is unrecognized, its child is a shape and comes
\* before the second root child.
C4_Witness ==
    /\ pc = "done"
    /\ dom.n = 3
    /\ visited = << 1, 3, 2 >>
    /\ ~Recognized(dom.inst[1])
    /\ Recognized(dom.inst[3])
    /\ Recognized(dom.inst[2])

\* --------------------------------------------------------------- C5

\* C5: for every face line, the last usemtl line before it is the one of
\* the instance that wrote the face; and the usemtl line of an instance
\* names the material of that instance's key, whose newmtl block, with the
\* key's colour and alpha, stands earlier among the writes.
C5_ActiveMaterial ==
    LET uses == Positions("usemtl")
        defs == Positions("newmtl")
    IN  /\ \A p \in Positions("f") :
              \E u \in uses :
                  /\ u < p
                  /\ writes[u].by = writes[p].by
                  /\ \A u2 \in uses : ~(u < u2 /\ u2 < p)
        /\ \A u \in uses :
              LET key == MatKey(dom.inst[writes[u].by])
              IN  /\ key \in DOMAIN material_map
                  /\ writes[u].name = material_map[key]
                  /\ \E q \in defs :
                        /\ q < u
                        /\ writes[q].name = writes[u].name
                        /\ writes[q + 1].kind = "Kd"
                        /\ writes[q + 1].r = <<key[1], 255>>
                        /\ writes[q + 1].g = <<key[2], 255>>
                        /\ writes[q + 1].b = <<key[3], 255>>
                        /\ writes[q + 2].kind = "d"
                        /\ writes[q + 2].a = <<key[4], 255>>

\* Three shapes in a row, the third back on the first one's material after
\* a different one in between.
C5_Witness ==
    /\ Len(visited) = 3
    /\ Shapes = Range(visited)
    /\ MatKey(dom.inst[visited[1]]) # MatKey(dom.inst[visited[2]])
    /\ MatKey(dom.inst[visited[3]]) = MatKey(dom.inst[visited[1]])
    /\ \E p \in Positions("f") : writes[p].by = visited[3]

\* --------------------------------------------------------------- C6

\* The number of vertex lines an instance wrote.
VertexLinesBy(c) == Cardinality({p \in Positions("v") : writes[p].by = c})

\* C6: between any two calls and at the end, vertex_offset is the number of
\* vertex lines written; each recognized instance visited has added its
\* local vertex count, each unrecognized one nothing.
C6_OffsetIsVertexCount ==
    LET vs == Positions("v")
    IN  /\ vertex_offset = Cardinality(vs)
        /\ \A c \in Range(visited) :
              Cardinality({p \in vs : writes[p].by = c})
                  = IF Recognized(dom.inst[c])
                    THEN Len(LocalMesh(dom.inst[c]).vertices)
                    ELSE 0

\* A finished export with an unrecognized instance between two shapes of
\* different vertex counts.
C6_Witness ==
    /\ pc = "done"
    /\ Len(visited) = 3
    /\ Recognized(dom.inst[visited[1]])
    /\ ~Recognized(dom.inst[visited[2]])
    /\ Recognized(dom.inst[visited[3]])
    /\ VertexLinesBy(visited[1]) # VertexLinesBy(visited[3])
    /\ vertex_offset = VertexLinesBy(visited[1]) + VertexLinesBy(visited[3])

\* --------------------------------------------------------------- C7

\* The directed edges of a triangle, in its winding order.
DirEdges(f) == {<<f[1], f[2]>>, <<f[2], f[3]>>, <<f[3], f[1]>>}

\* Each undirected edge of the triangle list is an edge of exactly two
\* triangles.
Closed(faces) ==
    \A e \in Edges(faces) :
        Cardinality({n \in 1..Len(faces) : e \in FaceEdges(faces[n])}) = 2

\* No two triangles traverse an edge in the same direction.
ConsistentWinding(faces) ==
    \A n, m \in 1..Len(faces) :
        n # m => DirEdges(faces[n]) \cap DirEdges(faces[m]) = {}

Minus(u, v) == Vec(u.x - v.x, u.y - v.y, u.z - v.z)

Cross(u, v) ==
    Vec(u.y * v.z - u.z * v.y, u.z * v.x - u.x * v.z, u.x * v.y - u.y * v.x)

Dot(u, v) == u.x * v.x + u.y * v.y + u.z * v.z

\* The normal of the winding (v1 - v0) x (v2 - v0) points away from the
\* origin, the centre of the local frame: it has a positive product with
\* the triangle's centroid (here three times the centroid).
PointsOutward(mesh, f) ==
    LET v0 == mesh.vertices[f[1] + 1]
        v1 == mesh.vertices[f[2] + 1]
        v2 == mesh.vertices[f[3] + 1]
        c3 == Vec(v0.x + v1.x + v2.x, v0.y + v1.y + v2.y, v0.z + v1.z + v2.z)
    IN  Dot(Cross(Minus(v1, v0), Minus(v2, v0)), c3) > 0

IsBox(inst) == inst.class = "Part" /\ ShapeOf(inst) \notin {0, 2}

\* C7: the mesh cube_mesh builds for every Box visited has 8 vertices and
\* 12 triangles, closed, consistently wound, every normal outward.
C7_CubeOutwardManifold ==
    \A c \in Range(visited) :
        IsBox(dom.inst[c]) =>
            LET mesh == cube_mesh(SizeOf(dom.inst[c]))
            IN  /\ Len(mesh.vertices) = 8
                /\ Len(mesh.faces) = 12
                /\ Closed(mesh.faces)
                /\ ConsistentWinding(mesh.faces)
                /\ \A n \in 1..12 : PointsOutward(mesh, mesh.faces[n])

\* -------------------------------------------------------------- C10

\* The nearest integer to num / den, for num >= 0.
RoundNearest(num, den) == (2 * num + den) \div (2 * den)

\* The key the table holds for the name an instance used.
KeyUsed(c) == CHOOSE key \in DOMAIN material_map : material_map[key] = NameUsed(c)

\* C10: the alpha byte of the key of every instance visited whose
\* Transparency t is in [0,1] (0 when absent or wrongly typed) is
\* round((1 - t) * 255).
C10_AlphaRounded ==
    \A c \in Shapes :
        LET t == TransparencyOf(dom.inst[c])
        IN  (0 <= t.num /\ t.num <= t.den) =>
                KeyUsed(c)[4] = RoundNearest((t.den - t.num) * 255, t.den)

\* ---------------------------------------------------------------- C8

\* C8 as stated: each pass adds 2 + (the edges of the mesh it started from)
\* vertices.
C8_VerticesGrowByEdgesPlusTwo ==
    sph.pc # "idle" =>
        \A n \in 1..(Len(sph.levels) - 1) :
            sph.levels[n + 1].nv = sph.levels[n].nv + 2 + sph.levels[n].ne

\* C8, amended: the call starts from 12 vertices, 20 triangles and 30 edges,
\* and each pass adds exactly as many vertices as the mesh it started from
\* has undirected edges.
C8_VerticesGrowByEdges ==
    sph.pc # "idle" =>
        /\ sph.levels[1] = [nv |-> 12, nf |-> 20, ne |-> 30]
        /\ \A n \in 1..(Len(sph.levels) - 1) :
              sph.levels[n + 1].nv = sph.levels[n].nv + sph.levels[n].ne

\* Two passes are over: 12, 42 and 162 vertices.
C8_Witness ==
    /\ sph.pc = "done"
    /\ Len(sph.levels) = 3
    /\ sph.levels[2].nv = 42
    /\ sph.levels[3].nv = 162

\* ---------------------------------------------------------------- C9

\* C9: over one call, the midpoint requests so far give each undirected
\* edge one index and each index one edge, whatever the order of the two
\* ends and whatever the pass; the vertices generated are as many as the
\* edges requested and no two of them are the midpoint of the same edge.
C9_OneMidpointPerEdge ==
    sph.pc # "idle" =>
        LET got   == {<<UEdge(r[1], r[2]), r[3]>> : r \in Range(sph.requests)}
            edges == {g[1] : g \in got}
            idxs  == {g[2] : g \in got}
        IN  /\ Cardinality(got) = Cardinality(edges)
            /\ Cardinality(got) = Cardinality(idxs)
            /\ Len(sph.vertices) = 12 + Cardinality(edges)
            /\ Cardinality(Range(sph.vertices)) = Len(sph.vertices)

\* A call of two passes is over, and in its second pass an edge was
\* requested in both orders.
C9_Witness ==
    /\ sph.pc = "done"
    /\ sph.subdivisions = 2
    /\ \E k \in 61..Len(sph.requests) :
          \E m \in (k + 1)..Len(sph.requests) :
              /\ sph.requests[k][1] = sph.requests[m][2]
              /\ sph.requests[k][2] = sph.requests[m][1]
              /\ sph.requests[k][3] = sph.requests[m][3]

====
